---- MODULE Spec2Model ----
(***************************************************************************)
(* OpenFeelz: the personality-modulated affective state engine             *)
(* (StateManager and the model functions it composes) and the durable      *)
(* store it persists through (atomic state file + advisory lock marker).   *)
(*                                                                         *)
(* Numbers.  The program computes with IEEE doubles in [-1,1].  The model  *)
(* uses fixed point: a value v is the integer 1000*v ("permille"), a       *)
(* product a*b is (a*b) \div 1000.  Times are milliseconds, as Date.now(). *)
(***************************************************************************)
EXTENDS Integers, Sequences, FiniteSets, TLC

VARIABLES
    st,        \* engine: the EmotionEngineState value the caller holds
    cfg,       \* engine: the resolved EmotionEngineConfig of the StateManager
    now,       \* the wall clock, Date.now(), in ms
    steps,     \* engine: number of orchestrator operations performed so far
    nextId,    \* engine: source of fresh stimulus ids (crypto.randomUUID)
    lastOp,    \* engine: the operation that produced st (history variable)
    reply,     \* requests: the last tool/dashboard request and its reply
    file,      \* store: content of the state file
    tmp,       \* store: per-writer temporary sibling file
    lock,      \* store: the lock marker <statePath>.lock
    pc,        \* store: each saveState/getState execution's position
    locked,    \* store: each saveState execution's local `locked`
    held,      \* store: the document each caller passes to saveState
    loaded,    \* store: the last value getState returned to each caller
    outcome    \* store: how each caller's last saveState ended

vars == <<st, cfg, now, steps, nextId, lastOp, reply,
          file, tmp, lock, pc, locked, held, loaded, outcome>>

engineVars == <<st, cfg, steps, nextId, lastOp, reply>>
storeVars == <<file, tmp, lock, pc, locked, held, loaded, outcome>>

(***************************************************************************)
(* Fixed point                                                             *)
(***************************************************************************)
\* 1.0 in fixed point (three decimal digits)
One == 10 * 10 * 10

Mul(a, b) == (a * b) \div One

Min(a, b) == IF a < b THEN a ELSE b

Max(a, b) == IF a > b THEN a ELSE b

(***************************************************************************)
(* types.ts                                                                *)
(***************************************************************************)
DIMENSION_NAMES ==
    {"pleasure", "arousal", "dominance", "connection", "curiosity", "energy", "trust"}

BIPOLAR_DIMENSIONS == {"pleasure", "arousal", "dominance"}

UNIPOLAR_DIMENSIONS == {"connection", "curiosity", "energy", "trust"}

BASIC_EMOTION_NAMES ==
    {"happiness", "sadness", "anger", "fear", "disgust", "surprise"}

OCEAN_TRAITS ==
    {"openness", "conscientiousness", "extraversion", "agreeableness", "neuroticism"}

\* DEFAULT_CONFIG.ruminationThreshold (0.7)
ruminationThreshold == 700

\* DEFAULT_CONFIG.ruminationMaxStages
ruminationMaxStages == 4

(***************************************************************************)
(* model/emotion-model.ts: clamping (Bounded Value Model)                  *)
(***************************************************************************)
clampBipolar(x) == Max(0 - One, Min(One, x))

clampUnipolar(x) == Max(0, Min(One, x))

clampDimension(name, x) ==
    IF name \in BIPOLAR_DIMENSIONS THEN clampBipolar(x) ELSE clampUnipolar(x)

clampEmotion(x) == clampUnipolar(x)

createDefaultBasicEmotions == [e \in BASIC_EMOTION_NAMES |-> 0]

(***************************************************************************)
(* model/personality.ts                                                    *)
(***************************************************************************)
createDefaultPersonality == [t \in OCEAN_TRAITS |-> 500]

\* A sparse table row: the weight of key k, 0 when the row has no entry for k.
Weight(row, k) == IF k \in DOMAIN row THEN row[k] ELSE 0

TRAIT_BASELINE_INFLUENCE ==
    [openness          |-> [curiosity |-> 300, dominance |-> 100],
     conscientiousness |-> [energy |-> 200, dominance |-> 150],
     extraversion      |-> [pleasure |-> 250, arousal |-> 200, connection |-> 150],
     agreeableness     |-> [connection |-> 250, trust |-> 200, pleasure |-> 100],
     neuroticism       |-> [pleasure |-> 0 - 250, arousal |-> 150, energy |-> 0 - 100]]

TRAIT_DIMENSION_DECAY_INFLUENCE ==
    [openness          |-> [curiosity |-> 0 - 300],
     conscientiousness |-> [energy |-> 200],
     extraversion      |-> [arousal |-> 300, pleasure |-> 200],
     agreeableness     |-> [connection |-> 0 - 200],
     neuroticism       |-> [pleasure |-> 0 - 400, arousal |-> 0 - 200]]

TRAIT_EMOTION_DECAY_INFLUENCE ==
    [extraversion  |-> [sadness |-> 400, happiness |-> 0 - 200],
     neuroticism   |-> [sadness |-> 0 - 400, anger |-> 0 - 300, fear |-> 0 - 300,
                        disgust |-> 0 - 200],
     agreeableness |-> [anger |-> 300],
     openness      |-> [surprise |-> 0 - 300, happiness |-> 0 - 100]]

BASE_DIMENSION_DECAY_RATES ==
    [pleasure |-> 58, arousal |-> 87, dominance |-> 46, connection |-> 35,
     curiosity |-> 58, energy |-> 46, trust |-> 35]

BASE_EMOTION_DECAY_RATES ==
    [happiness |-> 58, sadness |-> 46, anger |-> 58, fear |-> 58,
     disgust |-> 46, surprise |-> 139]

NeutralBaseline ==
    [d \in DIMENSION_NAMES |-> IF d \in BIPOLAR_DIMENSIONS THEN 0 ELSE 500]

\* The order in which Object.entries walks an influence table.
TraitOrder(table) ==
    SelectSeq(<<"openness", "conscientiousness", "extraversion",
                "agreeableness", "neuroticism">>,
              LAMBDA t : t \in DOMAIN table)

RECURSIVE SumInfluence(_, _, _, _)
\* baseline[dim] += weight * deviation, over the traits in `order`
SumInfluence(table, order, personality, dim) ==
    IF order = <<>> THEN 0
    ELSE Mul(Weight(table[Head(order)], dim), personality[Head(order)] - 500)
         + SumInfluence(table, Tail(order), personality, dim)

\* a variant of computeBaseline without the final clamp
computeBaselineLeak(personality) ==
    [d \in DIMENSION_NAMES |->
        NeutralBaseline[d]
        + SumInfluence(TRAIT_BASELINE_INFLUENCE,
                       TraitOrder(TRAIT_BASELINE_INFLUENCE), personality, d)]

computeBaseline(personality) ==
    [d \in DIMENSION_NAMES |->
        clampDimension(d,
            NeutralBaseline[d]
            + SumInfluence(TRAIT_BASELINE_INFLUENCE,
                           TraitOrder(TRAIT_BASELINE_INFLUENCE), personality, d))]

RECURSIVE ApplyRateInfluence(_, _, _, _, _)
\* rates[key] *= Math.max(0.1, 1 + weight * deviation), over the traits in `order`
ApplyRateInfluence(table, order, personality, key, rate) ==
    IF order = <<>> THEN rate
    ELSE ApplyRateInfluence(table, Tail(order), personality, key,
            IF key \in DOMAIN table[Head(order)]
            THEN Mul(rate, Max(100, One + Mul(table[Head(order)][key],
                                              personality[Head(order)] - 500)))
            ELSE rate)

computeDimensionDecayRates(personality) ==
    [d \in DIMENSION_NAMES |->
        ApplyRateInfluence(TRAIT_DIMENSION_DECAY_INFLUENCE,
                           TraitOrder(TRAIT_DIMENSION_DECAY_INFLUENCE),
                           personality, d, BASE_DIMENSION_DECAY_RATES[d])]

computeEmotionDecayRates(personality) ==
    [e \in BASIC_EMOTION_NAMES |->
        ApplyRateInfluence(TRAIT_EMOTION_DECAY_INFLUENCE,
                           TraitOrder(TRAIT_EMOTION_DECAY_INFLUENCE),
                           personality, e, BASE_EMOTION_DECAY_RATES[e])]

computeRuminationProbability(personality) ==
    Max(0, Min(One, 500 + Mul(personality["neuroticism"] - 500, 600)
                        + Mul(personality["openness"] - 500, 200)
                        + Mul(personality["conscientiousness"] - 500, 0 - 300)))

computeResponseIntensityMultiplier(personality) ==
    Max(500, Min(2000, One + Mul(personality["neuroticism"] - 500, 400)
                           + Mul(personality["agreeableness"] - 500, 0 - 200)))

(***************************************************************************)
(* model/decay.ts                                                          *)
(***************************************************************************)
RECURSIVE Pow2(_)
Pow2(k) == IF k = 0 THEN 1 ELSE 2 * Pow2(k - 1)

\* Math.exp(-x) for x >= 0 in fixed point: whole half-lives (ln 2 = 0.693)
\* halve the value, the remainder is interpolated linearly.  The result is
\* in [0, One], One only at x = 0, and non-increasing in x.
ExpDecay(x) ==
    LET k == x \div 693
        r == x % 693
    IN  IF k >= 20 THEN 0 ELSE (One - ((r * 500) \div 693)) \div Pow2(k)

\* Math.exp(-x) for any x: a negative rate makes the exponent positive and
\* the factor exceed 1 (capped at e^(20 ln 2), far beyond any clamp).
ExpNeg(x) ==
    IF x >= 0 THEN ExpDecay(x)
    ELSE (One * One) \div Max(1, ExpDecay(Min(0 - x, 13 * 693)))

\* ms -> hours in fixed point: (now - lastUpdated) / 3_600_000
HoursOf(ms) == ms \div 3600

\* a variant of decayTowardBaseline without the elapsedHours guard
decayTowardBaselineNoGuard(current, baseline, rate, elapsedHours) ==
    baseline + Mul(current - baseline, ExpNeg(Mul(rate, elapsedHours)))

decayTowardBaseline(current, baseline, rate, elapsedHours) ==
    IF elapsedHours <= 0 THEN current
    ELSE baseline + Mul(current - baseline, ExpNeg(Mul(rate, elapsedHours)))

decayDimensions(state, baseline, rates, elapsedHours) ==
    [d \in DIMENSION_NAMES |->
        clampDimension(d, decayTowardBaseline(state[d], baseline[d], rates[d],
                                              elapsedHours))]

decayBasicEmotions(emotions, rates, elapsedHours) ==
    [e \in BASIC_EMOTION_NAMES |->
        clampEmotion(decayTowardBaseline(emotions[e], 0, rates[e], elapsedHours))]

(***************************************************************************)
(* model/mapping.ts                                                        *)
(***************************************************************************)
NoDeltas == [x \in {} |-> 0]

ALL_EMOTION_MAPPINGS ==
    [happy      |-> [dimensions |-> [pleasure |-> 200, arousal |-> 100, energy |-> 50],
                     emotions   |-> [happiness |-> 300]],
     excited    |-> [dimensions |-> [pleasure |-> 150, arousal |-> 250, energy |-> 100],
                     emotions   |-> [happiness |-> 200, surprise |-> 100]],
     calm       |-> [dimensions |-> [pleasure |-> 100, arousal |-> 0 - 150, energy |-> 50],
                     emotions   |-> [happiness |-> 50]],
     relieved   |-> [dimensions |-> [pleasure |-> 150, arousal |-> 0 - 100, energy |-> 50],
                     emotions   |-> [happiness |-> 100]],
     optimistic |-> [dimensions |-> [pleasure |-> 150, arousal |-> 50, energy |-> 100],
                     emotions   |-> [happiness |-> 150]],
     energized  |-> [dimensions |-> [pleasure |-> 100, arousal |-> 150, energy |-> 250],
                     emotions   |-> [happiness |-> 100]],
     sad        |-> [dimensions |-> [pleasure |-> 0 - 200, arousal |-> 0 - 150,
                                     energy |-> 0 - 100],
                     emotions   |-> [sadness |-> 300]],
     angry      |-> [dimensions |-> [pleasure |-> 0 - 150, arousal |-> 250,
                                     dominance |-> 100, trust |-> 0 - 50],
                     emotions   |-> [anger |-> 300]],
     frustrated |-> [dimensions |-> [pleasure |-> 0 - 100, arousal |-> 150,
                                     dominance |-> 0 - 50, energy |-> 0 - 50],
                     emotions   |-> [anger |-> 200]],
     fearful    |-> [dimensions |-> [pleasure |-> 0 - 150, arousal |-> 200,
                                     dominance |-> 0 - 150],
                     emotions   |-> [fear |-> 300]],
     anxious    |-> [dimensions |-> [pleasure |-> 0 - 100, arousal |-> 150,
                                     dominance |-> 0 - 100, energy |-> 0 - 50],
                     emotions   |-> [fear |-> 200]],
     disgusted  |-> [dimensions |-> [pleasure |-> 0 - 200, arousal |-> 100],
                     emotions   |-> [disgust |-> 300]],
     curious    |-> [dimensions |-> [curiosity |-> 200, arousal |-> 100, pleasure |-> 50],
                     emotions   |-> [surprise |-> 50]],
     confused   |-> [dimensions |-> [curiosity |-> 100, arousal |-> 100,
                                     dominance |-> 0 - 100],
                     emotions   |-> [surprise |-> 100]],
     focused    |-> [dimensions |-> [curiosity |-> 100, arousal |-> 50, energy |-> 50,
                                     dominance |-> 50],
                     emotions   |-> NoDeltas],
     surprised  |-> [dimensions |-> [arousal |-> 200, curiosity |-> 100],
                     emotions   |-> [surprise |-> 300]],
     connected  |-> [dimensions |-> [connection |-> 200, pleasure |-> 100, trust |-> 100],
                     emotions   |-> [happiness |-> 100]],
     trusting   |-> [dimensions |-> [trust |-> 150, connection |-> 100, pleasure |-> 50],
                     emotions   |-> [happiness |-> 50]],
     lonely     |-> [dimensions |-> [connection |-> 0 - 200, pleasure |-> 0 - 100],
                     emotions   |-> [sadness |-> 150]],
     fatigued   |-> [dimensions |-> [energy |-> 0 - 250, arousal |-> 0 - 100,
                                     pleasure |-> 0 - 50],
                     emotions   |-> [sadness |-> 50]],
     neutral    |-> [dimensions |-> NoDeltas, emotions |-> NoDeltas]]

LABEL_ALIASES ==
    [joy |-> "happy", happiness |-> "happy", contentment |-> "calm", content |-> "calm",
     peaceful |-> "calm", peace |-> "calm", anger |-> "angry", rage |-> "angry",
     irritated |-> "frustrated", irritation |-> "frustrated", sadness |-> "sad",
     sorrow |-> "sad", disappointment |-> "sad", disappointed |-> "sad",
     fear |-> "fearful", scared |-> "fearful", terrified |-> "fearful",
     anxiety |-> "anxious", worried |-> "anxious", worry |-> "anxious",
     disgust |-> "disgusted", revulsion |-> "disgusted", surprise |-> "surprised",
     shocked |-> "surprised", astonished |-> "surprised", curiosity |-> "curious",
     interest |-> "curious", interested |-> "curious", fascinated |-> "curious",
     confusion |-> "confused", bewildered |-> "confused", connection |-> "connected",
     warmth |-> "connected", warm |-> "connected", bonded |-> "connected",
     trust |-> "trusting", loneliness |-> "lonely", isolated |-> "lonely",
     fatigue |-> "fatigued", tired |-> "fatigued", exhausted |-> "fatigued",
     depleted |-> "fatigued", excitement |-> "excited", thrilled |-> "excited",
     relief |-> "relieved", optimism |-> "optimistic", hopeful |-> "optimistic",
     hope |-> "optimistic", energy |-> "energized", energetic |-> "energized",
     vigorous |-> "energized", focus |-> "focused", concentrated |-> "focused",
     attentive |-> "focused"]

\* label.trim().toLowerCase() on the surface forms the model feeds in; any
\* other string is already trimmed lower case.
Normalized(label) ==
    CASE label = " Angry " -> "angry"
      [] label = "RAGE"    -> "rage"
      [] OTHER             -> label

\* LABEL_ALIASES and ALL_EMOTION_MAPPINGS are object literals: a lookup also
\* finds what Object.prototype defines.  Of its keys only these two are
\* lower case, and a lower-cased label can hit no other.
ObjectPrototypeKeys == {"constructor", "__proto__"}

\* the property key an inherited value turns into when it is used as an index
InheritedAsKey(key) ==
    IF key = "constructor" THEN "function Object() { [native code] }"
    ELSE "[object Object]"

\* LABEL_ALIASES[normalized] ?? normalized
Canonical(label) ==
    LET normalized == Normalized(label)
    IN  IF normalized \in DOMAIN LABEL_ALIASES THEN LABEL_ALIASES[normalized]
        ELSE IF normalized \in ObjectPrototypeKeys THEN InheritedAsKey(normalized)
        ELSE normalized

\* A variant of getEmotionMapping that answers an unknown label with the
\* mapping of "surprised".
getEmotionMappingFallback(label) ==
    LET canonical == IF Canonical(label) \in DOMAIN ALL_EMOTION_MAPPINGS
                     THEN Canonical(label) ELSE "surprised"
    IN  [defined    |-> TRUE,
         dimensions |-> ALL_EMOTION_MAPPINGS[canonical].dimensions,
         emotions   |-> ALL_EMOTION_MAPPINGS[canonical].emotions]

\* The mapping of a label; defined = FALSE stands for `undefined`.  Canonical
\* never returns a key of Object.prototype, so only own keys can be found.
getEmotionMapping(label) ==
    IF Canonical(label) \in DOMAIN ALL_EMOTION_MAPPINGS
    THEN [defined    |-> TRUE,
          dimensions |-> ALL_EMOTION_MAPPINGS[Canonical(label)].dimensions,
          emotions   |-> ALL_EMOTION_MAPPINGS[Canonical(label)].emotions]
    ELSE [defined |-> FALSE, dimensions |-> NoDeltas, emotions |-> NoDeltas]

applyEmotionMappingNoClamp(dimensions, emotions, label, intensity) ==
    LET mapping == getEmotionMapping(label)
    IN  IF ~mapping.defined
        THEN [dimensions |-> dimensions, emotions |-> emotions]
        ELSE [dimensions |->
                [d \in DIMENSION_NAMES |->
                    IF d \in DOMAIN mapping.dimensions
                    THEN dimensions[d] + Mul(mapping.dimensions[d], intensity)
                    ELSE dimensions[d]],
              emotions |->
                [e \in BASIC_EMOTION_NAMES |->
                    IF e \in DOMAIN mapping.emotions
                    THEN emotions[e] + Mul(mapping.emotions[e], intensity)
                    ELSE emotions[e]]]

applyEmotionMapping(dimensions, emotions, label, intensity) ==
    LET mapping == getEmotionMapping(label)
    IN  IF ~mapping.defined
        THEN [dimensions |-> dimensions, emotions |-> emotions]
        ELSE [dimensions |->
                [d \in DIMENSION_NAMES |->
                    IF d \in DOMAIN mapping.dimensions
                    THEN clampDimension(d, dimensions[d]
                                           + Mul(mapping.dimensions[d], intensity))
                    ELSE dimensions[d]],
              emotions |->
                [e \in BASIC_EMOTION_NAMES |->
                    IF e \in DOMAIN mapping.emotions
                    THEN clampEmotion(emotions[e] + Mul(mapping.emotions[e], intensity))
                    ELSE emotions[e]]]

(***************************************************************************)
(* model/rumination.ts                                                     *)
(***************************************************************************)
\* Entries below this intensity are dropped.
RuminationFloor == 50

\* adjustedThreshold = threshold + (1 - probability) * 0.3; strict comparison.
shouldStartRumination(intensity, threshold, probability) ==
    intensity > threshold + Mul(One - probability, 300)

\* a variant of startRumination that appends without looking for the id
startRuminationAlways(rumination, stimulus) ==
    [active |-> Append(rumination.active,
                       [stimulusId |-> stimulus.id,
                        label |-> stimulus.label,
                        stage |-> 0,
                        intensity |-> stimulus.intensity,
                        lastStageTimestamp |-> stimulus.timestamp])]

startRumination(rumination, stimulus) ==
    IF \E i \in 1..Len(rumination.active) :
           rumination.active[i].stimulusId = stimulus.id
    THEN rumination
    ELSE [active |-> Append(rumination.active,
                            [stimulusId |-> stimulus.id,
                             label |-> stimulus.label,
                             stage |-> 0,
                             intensity |-> stimulus.intensity,
                             lastStageTimestamp |-> stimulus.timestamp])]

RuminationAdvanced(entry, decayFactor, ts) ==
    [entry EXCEPT !.stage = entry.stage + 1,
                  !.intensity = Mul(entry.intensity, decayFactor),
                  !.lastStageTimestamp = ts]

RuminationKept(entry, maxStages) ==
    entry.stage < maxStages /\ entry.intensity >= RuminationFloor

RECURSIVE AdvanceEntries(_, _, _, _)
AdvanceEntries(active, maxStages, decayFactor, ts) ==
    IF active = <<>> THEN <<>>
    ELSE LET e == RuminationAdvanced(Head(active), decayFactor, ts)
             rest == AdvanceEntries(Tail(active), maxStages, decayFactor, ts)
         IN  IF RuminationKept(e, maxStages) THEN <<e>> \o rest ELSE rest

\* advanceRumination(state, maxStages, decayFactor) of rumination.ts
advanceRuminationEntries(rumination, maxStages, decayFactor, ts) ==
    [active |-> AdvanceEntries(rumination.active, maxStages, decayFactor, ts)]

RECURSIVE ApplyEntries(_, _, _)
ApplyEntries(active, dimensions, emotions) ==
    IF active = <<>> THEN [dimensions |-> dimensions, emotions |-> emotions]
    ELSE LET r == applyEmotionMapping(dimensions, emotions,
                                      Head(active).label, Head(active).intensity)
         IN  ApplyEntries(Tail(active), r.dimensions, r.emotions)

applyRuminationEffects(rumination, dimensions, emotions) ==
    ApplyEntries(rumination.active, dimensions, emotions)


(***************************************************************************)
(* state/state-file.ts: buildEmptyState                                    *)
(***************************************************************************)
NoBuckets == [k \in {} |-> 0]

buildEmptyState(t) ==
    [lastUpdated       |-> t,
     personality       |-> createDefaultPersonality,
     dimensions        |-> NeutralBaseline,
     baseline          |-> computeBaseline(createDefaultPersonality),
     decayRates        |-> computeDimensionDecayRates(createDefaultPersonality),
     emotionDecayRates |-> computeEmotionDecayRates(createDefaultPersonality),
     basicEmotions     |-> createDefaultBasicEmotions,
     recentStimuli     |-> <<>>,
     rumination        |-> [active |-> <<>>],
     users             |-> NoBuckets,
     agents            |-> NoBuckets,
     meta              |-> [totalUpdates |-> 0, createdAt |-> t]]

(***************************************************************************)
(* state/state-manager.ts: StateManager (the pure orchestrator operations) *)
(* `config` is this.config, `t` is the clock read by the operation and     *)
(* `id` the value crypto.randomUUID() returns.                             *)
(***************************************************************************)
RUMINATION_DECAY_FACTOR == 800

\* a variant of Capped that appends the new element
CappedOldestFirst(x, xs, n) ==
    SubSeq(xs \o <<x>>, 1,
           IF n >= 0 THEN Min(n, Len(xs) + 1) ELSE Max(Len(xs) + 1 + n, 0))

\* [x, ...xs].slice(0, n); a negative n counts from the end of the array
Capped(x, xs, n) ==
    SubSeq(<<x>> \o xs, 1,
           IF n >= 0 THEN Min(n, Len(xs) + 1) ELSE Max(Len(xs) + 1 + n, 0))

BumpUpdates(state) ==
    [state EXCEPT !.meta.totalUpdates = state.meta.totalUpdates + 1]

\* a variant of applyDecay without the early return
applyDecayNoGuard(state, t) ==
    LET elapsedHours == Max(0, HoursOf(t - state.lastUpdated))
    IN  [state EXCEPT
            !.dimensions = decayDimensions(state.dimensions, state.baseline,
                                           state.decayRates, elapsedHours),
            !.basicEmotions = decayBasicEmotions(state.basicEmotions,
                                                 state.emotionDecayRates,
                                                 elapsedHours),
            !.lastUpdated = t]

applyDecay(state, t) ==
    LET elapsedHours == Max(0, HoursOf(t - state.lastUpdated))
    IN  IF elapsedHours <= 0 THEN state
        ELSE [state EXCEPT
                !.dimensions = decayDimensions(state.dimensions, state.baseline,
                                               state.decayRates, elapsedHours),
                !.basicEmotions = decayBasicEmotions(state.basicEmotions,
                                                     state.emotionDecayRates,
                                                     elapsedHours),
                !.lastUpdated = t]

\* a variant of applyStimulus that does not look at config.ruminationEnabled
applyStimulusAlwaysRuminates(state, config, label, intensity, trigger, id, t) ==
    LET multiplier      == computeResponseIntensityMultiplier(state.personality)
        scaledIntensity == Min(One, Mul(intensity, multiplier))
        mapped          == applyEmotionMapping(state.dimensions, state.basicEmotions,
                                               label, scaledIntensity)
        stimulus        == [id |-> id, timestamp |-> t, label |-> label,
                            intensity |-> scaledIntensity, trigger |-> trigger,
                            confidence |-> One, sourceRole |-> "system"]
        prob            == computeRuminationProbability(state.personality)
        rumination      ==
            IF shouldStartRumination(scaledIntensity, config.ruminationThreshold, prob)
            THEN startRumination(state.rumination, stimulus)
            ELSE state.rumination
    IN  BumpUpdates([state EXCEPT
            !.dimensions = mapped.dimensions,
            !.basicEmotions = mapped.emotions,
            !.recentStimuli = Capped(stimulus, state.recentStimuli, config.maxHistory),
            !.rumination = rumination])

applyStimulus(state, config, label, intensity, trigger, id, t) ==
    LET multiplier      == computeResponseIntensityMultiplier(state.personality)
        scaledIntensity == Min(One, Mul(intensity, multiplier))
        mapped          == applyEmotionMapping(state.dimensions, state.basicEmotions,
                                               label, scaledIntensity)
        stimulus        == [id |-> id, timestamp |-> t, label |-> label,
                            intensity |-> scaledIntensity, trigger |-> trigger,
                            confidence |-> One, sourceRole |-> "system"]
        prob            == computeRuminationProbability(state.personality)
        rumination      ==
            IF config.ruminationEnabled
               /\ shouldStartRumination(scaledIntensity, config.ruminationThreshold, prob)
            THEN startRumination(state.rumination, stimulus)
            ELSE state.rumination
    IN  BumpUpdates([state EXCEPT
            !.dimensions = mapped.dimensions,
            !.basicEmotions = mapped.emotions,
            !.recentStimuli = Capped(stimulus, state.recentStimuli, config.maxHistory),
            !.rumination = rumination])

\* a variant that applies the effects of the entries but never advances them
advanceRuminationEffectsOnly(state, config, t) ==
    IF ~config.ruminationEnabled \/ Len(state.rumination.active) = 0
    THEN state
    ELSE LET applied == applyRuminationEffects(state.rumination, state.dimensions,
                                               state.basicEmotions)
         IN  [state EXCEPT
                !.dimensions = applied.dimensions,
                !.basicEmotions = applied.emotions]

\* a variant of advanceRumination that decays the entries before it applies
\* their effects
advanceRuminationDecayFirst(state, config, t) ==
    IF ~config.ruminationEnabled \/ Len(state.rumination.active) = 0
    THEN state
    ELSE LET advanced == advanceRuminationEntries(state.rumination,
                             config.ruminationMaxStages,
                             RUMINATION_DECAY_FACTOR, t)
             applied  == applyRuminationEffects(advanced, state.dimensions,
                                                state.basicEmotions)
         IN  [state EXCEPT
                !.dimensions = applied.dimensions,
                !.basicEmotions = applied.emotions,
                !.rumination = advanced]

\* a variant of advanceRumination that lets entries live one stage longer
advanceRuminationExtraStage(state, config, t) ==
    IF ~config.ruminationEnabled \/ Len(state.rumination.active) = 0
    THEN state
    ELSE LET applied == applyRuminationEffects(state.rumination, state.dimensions,
                                               state.basicEmotions)
         IN  [state EXCEPT
                !.dimensions = applied.dimensions,
                !.basicEmotions = applied.emotions,
                !.rumination = advanceRuminationEntries(state.rumination,
                                   config.ruminationMaxStages + 1,
                                   RUMINATION_DECAY_FACTOR, t)]

\* Variant of advanceRumination that counts as an update.
advanceRuminationBumps(state, config, t) ==
    IF ~config.ruminationEnabled \/ Len(state.rumination.active) = 0 THEN state
    ELSE LET applied == applyRuminationEffects(state.rumination, state.dimensions,
                                               state.basicEmotions)
         IN  BumpUpdates([state EXCEPT
                !.dimensions = applied.dimensions,
                !.basicEmotions = applied.emotions,
                !.rumination = advanceRuminationEntries(state.rumination,
                                   config.ruminationMaxStages,
                                   RUMINATION_DECAY_FACTOR, t)])

advanceRumination(state, config, t) ==
    IF ~config.ruminationEnabled \/ Len(state.rumination.active) = 0
    THEN state
    ELSE LET applied == applyRuminationEffects(state.rumination, state.dimensions,
                                               state.basicEmotions)
         IN  [state EXCEPT
                !.dimensions = applied.dimensions,
                !.basicEmotions = applied.emotions,
                !.rumination = advanceRuminationEntries(state.rumination,
                                   config.ruminationMaxStages,
                                   RUMINATION_DECAY_FACTOR, t)]

\* a variant of setDimension that stores the value as given
setDimensionNoClamp(state, dimension, value) ==
    BumpUpdates([state EXCEPT !.dimensions[dimension] = value])

setDimension(state, dimension, value) ==
    BumpUpdates([state EXCEPT !.dimensions[dimension] = clampDimension(dimension, value)])

applyDimensionDeltaMethod(state, dimension, delta) ==
    BumpUpdates([state EXCEPT
        !.dimensions[dimension] =
            clampDimension(dimension, state.dimensions[dimension] + delta)])

\* a variant of setPersonalityTrait that stores the value as given
setPersonalityTraitNoClamp(state, trait, value) ==
    LET personality == [state.personality EXCEPT ![trait] = value]
    IN  BumpUpdates([state EXCEPT
            !.personality = personality,
            !.baseline = computeBaseline(personality),
            !.decayRates = computeDimensionDecayRates(personality),
            !.emotionDecayRates = computeEmotionDecayRates(personality)])

\* a variant that recomputes the baseline but keeps the old decay rates
setPersonalityTraitStaleRates(state, trait, value) ==
    LET personality == [state.personality EXCEPT ![trait] = Max(0, Min(One, value))]
    IN  BumpUpdates([state EXCEPT
            !.personality = personality,
            !.baseline = computeBaseline(personality)])

setPersonalityTrait(state, trait, value) ==
    LET personality == [state.personality EXCEPT ![trait] = Max(0, Min(One, value))]
    IN  BumpUpdates([state EXCEPT
            !.personality = personality,
            !.baseline = computeBaseline(personality),
            !.decayRates = computeDimensionDecayRates(personality),
            !.emotionDecayRates = computeEmotionDecayRates(personality)])

\* Variant of resetToBaseline whose full reset leaves the rumination list.
resetToBaselineKeepsRumination(state, dimensions) ==
    LET isFullReset == Len(dimensions) = 0
        dimsToReset == IF isFullReset THEN DIMENSION_NAMES
                       ELSE {dimensions[i] : i \in 1..Len(dimensions)}
        newDims     == [d \in DIMENSION_NAMES |->
                          IF d \in dimsToReset THEN state.baseline[d]
                          ELSE state.dimensions[d]]
    IN  BumpUpdates([state EXCEPT
            !.dimensions = newDims,
            !.basicEmotions = IF isFullReset THEN createDefaultBasicEmotions
                              ELSE state.basicEmotions])

\* `dimensions` is the optional DimensionName[]; <<>> stands for undefined too.
resetToBaseline(state, dimensions) ==
    LET isFullReset == Len(dimensions) = 0
        dimsToReset == IF isFullReset THEN DIMENSION_NAMES
                       ELSE {dimensions[i] : i \in 1..Len(dimensions)}
        newDims     == [d \in DIMENSION_NAMES |->
                          IF d \in dimsToReset THEN state.baseline[d]
                          ELSE state.dimensions[d]]
    IN  BumpUpdates([state EXCEPT
            !.dimensions = newDims,
            !.basicEmotions = IF isFullReset THEN createDefaultBasicEmotions
                              ELSE state.basicEmotions,
            !.rumination = IF isFullReset THEN [active |-> <<>>]
                           ELSE state.rumination])

\* `result` is the ClassificationResult; a bucket that does not exist yet
\* starts as {history: []}
recordInBucket(buckets, key, stimulus, maxHistory) ==
    LET history == IF key \in DOMAIN buckets THEN buckets[key].history ELSE <<>>
        bucket  == [latest  |-> stimulus,
                    history |-> Capped(stimulus, history, maxHistory)]
    IN  [k \in DOMAIN buckets \cup {key} |-> IF k = key THEN bucket ELSE buckets[k]]

updateUserEmotion(state, config, userKey, result, id, t) ==
    LET stimulus == [id |-> id, timestamp |-> t, label |-> result.label,
                     intensity |-> result.intensity, trigger |-> result.reason,
                     confidence |-> result.confidence, sourceRole |-> "user"]
    IN  [state EXCEPT !.users = recordInBucket(state.users, userKey, stimulus,
                                               config.maxHistory)]

updateAgentEmotion(state, config, agentId, result, id, t) ==
    LET stimulus == [id |-> id, timestamp |-> t, label |-> result.label,
                     intensity |-> result.intensity, trigger |-> result.reason,
                     confidence |-> result.confidence, sourceRole |-> "assistant"]
    IN  [state EXCEPT !.agents = recordInBucket(state.agents, agentId, stimulus,
                                                config.maxHistory)]

\* The reset action of the emotion_state tool: names that are not dimension
\* names are filtered out before resetToBaseline sees the list.
handleReset(state, dimensions) ==
    LET validDims == SelectSeq(dimensions, LAMBDA d : d \in DIMENSION_NAMES)
    IN  resetToBaseline(state, validDims)


(***************************************************************************)
(* Inputs and bounds of the engine model                                   *)
(***************************************************************************)
\* operations per behaviour
MaxSteps == 3

\* config.maxHistory of the modelled StateManager
MaxHistory == 2

\* "bogus" is neither canonical nor an alias, "constructor" neither but a key
\* of Object.prototype; "RAGE" needs both normalisation and alias resolution.
Labels == {"angry", "joy", "RAGE", "bogus", "constructor"}

\* 0.4, 0.85 (the adjusted threshold of the default personality), 1.0, and
\* a negative value no caller validates (emotion_state modify)
Intensities == {400, 850, One, 0 - 2000}

InputDimensions == {"pleasure", "trust"}

DimensionValues == {0 - 2000, 600, 2000}

DimensionDeltas == {0 - 1500, 300}

InputTraits == {"neuroticism", "openness"}

TraitValues == {0 - 500, 900, 1500}

\* the CLI's --rate is an unvalidated parseFloat: negative rates get through
DecayRateValues == {0, 200, 0 - 200}

ResetArgs == {<<>>, <<"pleasure">>}

\* `dimensions` of an emotion_state reset call: an array of arbitrary strings;
\* <<"bogus">> names no dimension.
ToolResetArgs == ResetArgs \cup {<<"bogus">>}

\* one tick of the engine clock: 12 hours
EngineTickMs == 12 * 3600 * 1000

DefaultConfig ==
    [ruminationEnabled   |-> TRUE,
     ruminationThreshold |-> ruminationThreshold,
     ruminationMaxStages |-> ruminationMaxStages,
     maxHistory          |-> MaxHistory]

(***************************************************************************)
(* The store's idle values (used by the engine specification, which does   *)
(* no I/O) -- see the store section below.                                 *)
(***************************************************************************)
Writers == {1, 2}

\* updates of a batch request: per section the entries of the object, in the
\* order Object.entries walks them, each a pair <<name, value>>
NoUpdates == [dimensions |-> <<>>, personality |-> <<>>, decayRates |-> <<>>,
              basicEmotions |-> <<>>]

\* a request: optional numbers are sequences, <<>> when the field is absent
NoRequest == [via |-> "none", action |-> "none", name |-> "",
              value |-> <<>>, delta |-> <<>>, updates |-> NoUpdates]

\* no request has been made
NoReply == [request |-> NoRequest, ok |-> TRUE, errorName |-> "", errorValid |-> {}]

AbsentFile == [kind |-> "absent", doc |-> buildEmptyState(0)]

NoLock == [exists |-> FALSE, mtime |-> 0, owner |-> 0]

StoreIdle ==
    /\ file = AbsentFile
    /\ tmp = [p \in Writers |-> AbsentFile]
    /\ lock = NoLock
    /\ pc = [p \in Writers |-> "idle"]
    /\ locked = [p \in Writers |-> FALSE]
    /\ held = [p \in Writers |-> buildEmptyState(0)]
    /\ loaded = [p \in Writers |-> buildEmptyState(0)]
    /\ outcome = [p \in Writers |-> "none"]

(***************************************************************************)
(* The engine specification: one caller applying StateManager operations   *)
(* to the state value it holds.                                            *)
(***************************************************************************)
EngineInit ==
    /\ st = buildEmptyState(0)
    /\ cfg = DefaultConfig
    /\ now = 0
    /\ steps = 0
    /\ nextId = 1
    /\ lastOp = "getState"
    /\ reply = NoReply
    /\ StoreIdle

Step(op) ==
    /\ steps < MaxSteps
    /\ steps' = steps + 1
    /\ lastOp' = op
    /\ UNCHANGED <<reply, storeVars>>

\* time passes
EngineTick ==
    /\ Step("tick")
    /\ now' = now + EngineTickMs
    /\ UNCHANGED <<st, cfg, nextId>>

\* the plugin restarts with another ruminationEnabled (resolveConfig)
Reconfigure ==
    /\ Step("reconfigure")
    /\ cfg' = [cfg EXCEPT !.ruminationEnabled = ~cfg.ruminationEnabled]
    /\ UNCHANGED <<st, now, nextId>>

ApplyDecay ==
    /\ Step("applyDecay")
    /\ st' = applyDecay(st, now)
    /\ UNCHANGED <<cfg, now, nextId>>

ApplyStimulus ==
    \E label \in Labels, intensity \in Intensities :
        /\ Step("applyStimulus")
        /\ st' = applyStimulus(st, cfg, label, intensity, "trigger", nextId, now)
        /\ nextId' = nextId + 1
        /\ UNCHANGED <<cfg, now>>

AdvanceRumination ==
    /\ Step("advanceRumination")
    /\ st' = advanceRumination(st, cfg, now)
    /\ UNCHANGED <<cfg, now, nextId>>

SetDimension ==
    \E d \in InputDimensions, v \in DimensionValues :
        /\ Step("setDimension")
        /\ st' = setDimension(st, d, v)
        /\ UNCHANGED <<cfg, now, nextId>>

ApplyDimensionDelta ==
    \E d \in InputDimensions, delta \in DimensionDeltas :
        /\ Step("applyDimensionDelta")
        /\ st' = applyDimensionDeltaMethod(st, d, delta)
        /\ UNCHANGED <<cfg, now, nextId>>

SetPersonalityTrait ==
    \E trait \in InputTraits, v \in TraitValues :
        /\ Step("setPersonalityTrait")
        /\ st' = setPersonalityTrait(st, trait, v)
        /\ UNCHANGED <<cfg, now, nextId>>

ResetToBaseline ==
    \E dims \in ToolResetArgs :
        /\ Step(IF dims = <<>> THEN "resetToBaseline" ELSE "resetToBaseline(dimensions)")
        /\ st' = handleReset(st, dims)
        /\ UNCHANGED <<cfg, now, nextId>>

\* dashboard POST {action: "set_decay"} and `openclaw emotion decay`
setDecay(state, dimension, rate) ==
    [state EXCEPT !.decayRates[dimension] = rate]

SetDecay ==
    \E d \in InputDimensions, rate \in DecayRateValues :
        /\ Step("set_decay")
        /\ st' = setDecay(st, d, rate)
        /\ UNCHANGED <<cfg, now, nextId>>

EngineNext ==
    \/ EngineTick
    \/ Reconfigure
    \/ ApplyDecay
    \/ ApplyStimulus
    \/ AdvanceRumination
    \/ SetDimension
    \/ ApplyDimensionDelta
    \/ SetPersonalityTrait
    \/ ResetToBaseline
    \/ SetDecay

SpecEngine == EngineInit /\ [][EngineNext]_vars

(***************************************************************************)
(* state/state-file.ts: the durable store.  A file is absent, holds         *)
(* unparsable content ("corrupt"), a document still being written           *)
(* ("partial") or a complete document ("doc").                              *)
(***************************************************************************)
\* acquireLock's default staleMs
staleMs == 10000

CorruptFile == [kind |-> "corrupt", doc |-> buildEmptyState(0)]

\* a document written by an earlier run of the plugin
StoredFile == [kind |-> "doc", doc |-> buildEmptyState(0)]

\* readStateFile(path): the parsed document, or a fresh default state when
\* the file is missing or does not parse; `threw` tells an error reached
\* the caller.
readStateFileStrict(f, t) ==
    [threw |-> f.kind # "doc",
     state |-> IF f.kind = "doc" THEN f.doc ELSE buildEmptyState(t)]

readStateFile(f, t) ==
    [threw |-> FALSE,
     state |-> IF f.kind = "doc" THEN f.doc ELSE buildEmptyState(t)]

\* a write that puts the bytes straight into the target file
writeInPlace(f, t, state) ==
    [file |-> [kind |-> "partial", doc |-> state], tmp |-> t]

\* writeStateFile(path, state), first part: the serialized document goes
\* into a temporary sibling of the target
writeStateFileTmp(f, t, state) ==
    [file |-> f, tmp |-> [kind |-> "partial", doc |-> state]]

\* writeStateFile, second part: the finished sibling is renamed over the target
writeStateFileRename(f, t) ==
    [file |-> [kind |-> "doc", doc |-> t.doc], tmp |-> AbsentFile]

LockAge(l, t) == t - l.mtime

\* an acquire that never takes over an existing marker
acquireLockNoTakeover(l, owner, t, stale) ==
    IF ~l.exists
    THEN [ok |-> TRUE, lock |-> [exists |-> TRUE, mtime |-> t, owner |-> owner]]
    ELSE [ok |-> FALSE, lock |-> l]

\* an acquire that takes the marker whatever its age
acquireLockAlways(l, owner, t, stale) ==
    [ok |-> TRUE, lock |-> [exists |-> TRUE, mtime |-> t, owner |-> owner]]

\* acquireLock(lockPath, staleMs): exclusive create of the marker; an
\* existing marker older than staleMs is taken over, a younger one makes the
\* call fail at once.  `owner` is a ghost naming the creator.
acquireLock(l, owner, t, stale) ==
    IF ~l.exists \/ LockAge(l, t) > stale
    THEN [ok |-> TRUE, lock |-> [exists |-> TRUE, mtime |-> t, owner |-> owner]]
    ELSE [ok |-> FALSE, lock |-> l]

\* a release that leaves the marker where it is
releaseLockKeepsMarker(l) == l

\* releaseLock(lockPath): remove the marker, whoever created it
releaseLock(l) == NoLock

(***************************************************************************)
(* StateManager.getState / saveState                                       *)
(***************************************************************************)
getStateStrict(f, t) == readStateFileStrict(f, t)

getState(f, t) == readStateFile(f, t)

\* saveState: state.lastUpdated = new Date().toISOString()
saveStateStamp(state, t) == [state EXCEPT !.lastUpdated = t]

saveStateWriteInPlace(f, t, state, ts) ==
    writeInPlace(f, t, saveStateStamp(state, ts))

\* saveState: the stamp and the start of writeStateFile
saveStateWrite(f, t, state, ts) ==
    writeStateFileTmp(f, t, saveStateStamp(state, ts))

saveStateKeepLock(l, isLocked) == l

\* saveState: finally { if (locked) await releaseLock(lockPath) }
saveStateFinally(l, isLocked) == IF isLocked THEN releaseLock(l) ELSE l

(***************************************************************************)
(* The store specification: the callers in Writers share one state file    *)
(* and each runs load -> transform -> save; saveState is split at its      *)
(* awaits.                                                                 *)
(***************************************************************************)
\* loads started per behaviour
MaxSaves == 2

\* clock ticks per behaviour
MaxTicks == 3

\* one tick of the store clock: 5 s, half the staleness window
StoreTickMs == 5 * One

InSave == {"write", "writing", "finally"}

\* what each caller does between its load and its save: caller 1 is the
\* emotion_state tool's set_dimension (applyDecay, then setDimension),
\* caller 2 the background analysis service, which saves the state it
\* loaded with a cachedAnalysis attached (not part of the modelled document)
CallerTransform(p, state, t) ==
    IF p = 1 THEN setDimension(applyDecay(state, t), "pleasure", 600) ELSE state

\* a caller's locals once its request is over
NoLocal == buildEmptyState(0)

StoreInit ==
    /\ st = buildEmptyState(0)
    /\ cfg = DefaultConfig
    /\ now = 0
    /\ steps = 0
    /\ nextId = 1
    /\ lastOp = "getState"
    /\ reply = NoReply
    /\ file \in {AbsentFile, CorruptFile, StoredFile}
    /\ tmp = [p \in Writers |-> AbsentFile]
    /\ lock = NoLock
    /\ pc = [p \in Writers |-> "idle"]
    /\ locked = [p \in Writers |-> FALSE]
    /\ held = [p \in Writers |-> NoLocal]
    /\ loaded = [p \in Writers |-> NoLocal]
    /\ outcome = [p \in Writers |-> "none"]

StoreFixed == UNCHANGED <<st, cfg, nextId, lastOp, reply>>

\* time passes
StoreTick ==
    /\ now < MaxTicks * StoreTickMs
    /\ now' = now + StoreTickMs
    /\ UNCHANGED <<steps, storeVars>>
    /\ StoreFixed

\* await manager.getState()
GetState(p) ==
    /\ pc[p] = "idle"
    /\ steps < MaxSaves
    /\ steps' = steps + 1
    /\ LET r == getState(file, now)
       IN  /\ loaded' = [loaded EXCEPT ![p] = r.state]
           /\ pc' = [pc EXCEPT ![p] = IF r.threw THEN "error" ELSE "loaded"]
    /\ UNCHANGED <<now, file, tmp, lock, locked, held, outcome>>
    /\ StoreFixed

\* the caller's transform, then saveState up to `await acquireLock(lockPath)`
SaveAcquire(p) ==
    /\ pc[p] = "loaded"
    /\ held' = [held EXCEPT ![p] = CallerTransform(p, loaded[p], now)]
    /\ LET r == acquireLock(lock, p, now, staleMs)
       IN  /\ lock' = r.lock
           /\ locked' = [locked EXCEPT ![p] = r.ok]
    /\ pc' = [pc EXCEPT ![p] = "write"]
    /\ UNCHANGED <<now, steps, file, tmp, loaded, outcome>>
    /\ StoreFixed

\* saveState stamps the state and writeStateFile starts writing; the code
\* does not look at `locked` before it writes
SaveWrite(p) ==
    /\ pc[p] = "write"
    /\ LET w == saveStateWrite(file, tmp[p], held[p], now)
       IN  /\ file' = w.file
           /\ tmp' = [tmp EXCEPT ![p] = w.tmp]
    /\ held' = [held EXCEPT ![p] = saveStateStamp(held[p], now)]
    /\ pc' = [pc EXCEPT ![p] = "writing"]
    /\ UNCHANGED <<now, steps, lock, locked, loaded, outcome>>
    /\ StoreFixed

\* writeStateFile finishes: rename over the target
SaveRename(p) ==
    /\ pc[p] = "writing"
    /\ LET w == writeStateFileRename(file, tmp[p])
       IN  /\ file' = w.file
           /\ tmp' = [tmp EXCEPT ![p] = w.tmp]
    /\ outcome' = [outcome EXCEPT ![p] = "saved"]
    /\ pc' = [pc EXCEPT ![p] = "finally"]
    /\ UNCHANGED <<now, steps, lock, locked, held, loaded>>
    /\ StoreFixed

\* writeStateFile rejects with an I/O error, leaving what it wrote so far
SaveWriteFails(p) ==
    /\ pc[p] = "writing"
    /\ outcome' = [outcome EXCEPT ![p] = "threw"]
    /\ pc' = [pc EXCEPT ![p] = "finally"]
    /\ UNCHANGED <<now, steps, file, tmp, lock, locked, held, loaded>>
    /\ StoreFixed

\* the finally block, then saveState settles; lastOp (history) records a
\* releaseLock call and whether it found the marker
SaveFinally(p) ==
    /\ pc[p] = "finally"
    /\ lock' = saveStateFinally(lock, locked[p])
    /\ pc' = [pc EXCEPT ![p] = "done"]
    /\ lastOp' = IF ~locked[p] THEN lastOp
                 ELSE IF lock.exists THEN "releaseLock" ELSE "releaseLock(absent)"
    /\ UNCHANGED <<now, steps, file, tmp, locked, held, loaded, outcome>>
    /\ UNCHANGED <<st, cfg, nextId, reply>>

\* the caller goes on to its next request
Return(p) ==
    /\ pc[p] = "done"
    /\ pc' = [pc EXCEPT ![p] = "idle"]
    /\ locked' = [locked EXCEPT ![p] = FALSE]
    /\ outcome' = [outcome EXCEPT ![p] = "none"]
    /\ held' = [held EXCEPT ![p] = NoLocal]
    /\ loaded' = [loaded EXCEPT ![p] = NoLocal]
    /\ UNCHANGED <<now, steps, file, tmp, lock>>
    /\ StoreFixed

\* the process dies inside saveState; nothing of it runs again (one crash
\* per behaviour)
Crash(p) ==
    /\ pc[p] \in InSave
    /\ \A q \in Writers : pc[q] # "crashed"
    /\ pc' = [pc EXCEPT ![p] = "crashed"]
    /\ held' = [held EXCEPT ![p] = NoLocal]
    /\ loaded' = [loaded EXCEPT ![p] = NoLocal]
    /\ UNCHANGED <<now, steps, file, tmp, lock, locked, outcome>>
    /\ StoreFixed

StoreNext ==
    \/ StoreTick
    \/ \E p \in Writers : GetState(p)
    \/ \E p \in Writers : SaveAcquire(p)
    \/ \E p \in Writers : SaveWrite(p)
    \/ \E p \in Writers : SaveRename(p)
    \/ \E p \in Writers : SaveWriteFails(p)
    \/ \E p \in Writers : SaveFinally(p)
    \/ \E p \in Writers : Return(p)
    \/ \E p \in Writers : Crash(p)

SpecStore == StoreInit /\ [][StoreNext]_vars

(***************************************************************************)
(* Properties of the engine                                                *)
(***************************************************************************)
InRange(x, lo, hi) == lo <= x /\ x <= hi

DimensionsInRange(state) ==
    /\ \A d \in BIPOLAR_DIMENSIONS : InRange(state.dimensions[d], 0 - One, One)
    /\ \A d \in UNIPOLAR_DIMENSIONS : InRange(state.dimensions[d], 0, One)

\* C8: after any sequence of applyStimulus, applyDecay, setDimension,
\* applyDimensionDelta, advanceRumination, setPersonalityTrait and
\* resetToBaseline calls from the default state, pleasure, arousal and
\* dominance lie in [-1,1], the four unipolar dimensions lie in [0,1], and
\* every basic emotion and every OCEAN trait lies in [0,1].
C8_FieldsInRange ==
    /\ DimensionsInRange(st)
    /\ \A e \in BASIC_EMOTION_NAMES : InRange(st.basicEmotions[e], 0, One)
    /\ \A t \in OCEAN_TRAITS : InRange(st.personality[t], 0, One)

\* a stimulus whose delta would take pleasure below -1 was applied to a
\* state already at the lower bound, and an emotion rose above 0
C8_ClampedStimulus ==
    /\ lastOp = "applyStimulus"
    /\ st.dimensions["pleasure"] = 0 - One
    /\ st.basicEmotions["anger"] > 0
    /\ Len(st.recentStimuli) > 0
    /\ st.recentStimuli[1].label = "angry"

BaselineDerived(state) == state.baseline = computeBaseline(state.personality)

DecayRatesDerived(state) ==
    state.decayRates = computeDimensionDecayRates(state.personality)

EmotionDecayRatesDerived(state) ==
    state.emotionDecayRates = computeEmotionDecayRates(state.personality)

\* C9 as stated: in every state, baseline, the dimension decay rates and
\* the emotion decay rates all equal the values derived from the state's
\* OCEAN profile.
C9_AllDerivedAlways ==
    /\ BaselineDerived(st)
    /\ DecayRatesDerived(st)
    /\ EmotionDecayRatesDerived(st)

\* C9 (amended): baseline and the emotion decay rates always equal the values
\* derived from the current OCEAN profile; setPersonalityTrait leaves all
\* three derived fields recomputed from the new profile; and the dimension
\* decay rates lose that consistency only by a set_decay request, no other
\* operation changes them independently of the profile.
C9_DerivedExceptSetDecay ==
    [][/\ BaselineDerived(st) /\ BaselineDerived(st')
       /\ EmotionDecayRatesDerived(st) /\ EmotionDecayRatesDerived(st')
       /\ (lastOp' = "setPersonalityTrait" => DecayRatesDerived(st'))
       /\ (lastOp' # "set_decay" /\ DecayRatesDerived(st) => DecayRatesDerived(st'))
       /\ (lastOp' \notin {"set_decay", "setPersonalityTrait"}
             => st'.decayRates = st.decayRates)]_vars

\* a trait was changed away from its default and all three fields follow it
C9_TraitChanged ==
    /\ lastOp = "setPersonalityTrait"
    /\ st.personality # createDefaultPersonality
    /\ st.baseline # computeBaseline(createDefaultPersonality)
    /\ st.decayRates # computeDimensionDecayRates(createDefaultPersonality)
    /\ C9_AllDerivedAlways

\* n successive StateManager.advanceRumination calls
RECURSIVE AdvanceTimes(_, _, _, _)
AdvanceTimes(state, config, n, t) ==
    IF n = 0 THEN state
    ELSE AdvanceTimes(advanceRumination(state, config, t), config, n - 1, t)

EmptyWithin(state, config, n) ==
    Len(AdvanceTimes(state, config, n, now).rumination.active) = 0

\* C10 as stated: from any state, maxStages + 1 successive
\* StateManager.advanceRumination calls leave the rumination list empty.
C10_EmptyWithinMaxStagesPlusOne ==
    EmptyWithin(st, cfg, cfg.ruminationMaxStages + 1)

\* C10 (amended): while rumination is enabled in the manager's config,
\* maxStages + 1 successive StateManager.advanceRumination calls leave the
\* rumination list empty, whatever entries it started with.
C10_EmptyWhenEnabled ==
    cfg.ruminationEnabled => EmptyWithin(st, cfg, cfg.ruminationMaxStages + 1)

\* rumination is enabled and a list with a full-intensity entry is still
\* non-empty one call before the bound on stages
C10_ActiveEntry ==
    /\ cfg.ruminationEnabled
    /\ Len(st.rumination.active) > 0
    /\ st.rumination.active[1].stage = 0
    /\ ~EmptyWithin(st, cfg, cfg.ruminationMaxStages - 1)
    /\ EmptyWithin(st, cfg, cfg.ruminationMaxStages)

\* rumination was switched off while an entry was active
C10_DisabledWithEntry ==
    /\ ~cfg.ruminationEnabled
    /\ Len(st.rumination.active) > 0

(***************************************************************************)
(* Properties of the store                                                 *)
(***************************************************************************)
AfterAcquire == {"write", "writing", "finally", "done"}

\* C1: a saveState whose acquireLock returned false never writes the state
\* file (neither starts the write nor replaces the target) and ends by
\* telling its caller "could not save".
C1_FailedAcquireNotWritten ==
    \A p \in Writers :
        (pc[p] \in AfterAcquire /\ ~locked[p]) =>
            /\ pc[p] # "writing"
            /\ outcome[p] # "saved"
            /\ (pc[p] = "done" => outcome[p] = "could not save")

\* C2: whoever is writing the state file holds its lock marker, so no two
\* saveState executions are writing the same file at once.
C2_WritesUnderLock ==
    /\ \A p \in Writers :
          pc[p] = "writing" => (lock.exists /\ lock.owner = p)
    /\ \A p, q \in Writers :
          (pc[p] = "writing" /\ pc[q] = "writing") => p = q

\* C3: a saveState that acquired the lock and has finished, by returning or
\* by rethrowing an I/O error of the write, has not left its marker behind.
C3_ReleasedWhenFinished ==
    \A p \in Writers :
        (pc[p] = "done" /\ locked[p]) => ~(lock.exists /\ lock.owner = p)

\* a save that had the lock ended with the write's I/O error, marker gone
C3_ThrewAndReleased ==
    \E p \in Writers :
        /\ pc[p] = "done"
        /\ locked[p]
        /\ outcome[p] = "threw"
        /\ ~lock.exists

AcquireStep(p) == pc[p] = "loaded" /\ pc'[p] = "write"

FreshMarker == lock.exists /\ LockAge(lock, now) <= staleMs

\* C4: acquireLock on a marker that exists and is not older than staleMs
\* returns false in the same step and leaves the marker as it is; on a path
\* with no marker it returns true and creates it, so of two immediate calls
\* the first succeeds and the second fails.
C4_FreshMarkerRefuses ==
    [][\A p \in Writers : AcquireStep(p) =>
          /\ (FreshMarker => (~locked'[p] /\ lock' = lock))
          /\ (~lock.exists =>
                (locked'[p] /\ lock'.exists /\ lock'.owner = p /\ lock'.mtime = now))]_vars

\* two callers called acquireLock at the same instant: one got true, the
\* other false, and the marker is the first one's
C4_SecondRefused ==
    \E p, q \in Writers :
        /\ p # q
        /\ pc[p] = "write" /\ locked[p]
        /\ pc[q] = "write" /\ ~locked[q]
        /\ lock.exists /\ lock.owner = p /\ lock.mtime = now

\* C5: acquireLock on a marker older than staleMs returns true and takes the
\* marker over, and a call that returns false found a marker not older than
\* staleMs: a crashed holder blocks the others for at most staleMs.
C5_StaleMarkerTaken ==
    [][\A p \in Writers : AcquireStep(p) =>
          /\ ((lock.exists /\ LockAge(lock, now) > staleMs) =>
                (locked'[p] /\ lock'.exists /\ lock'.owner = p /\ lock'.mtime = now))
          /\ (~locked'[p] => LockAge(lock, now) <= staleMs)]_vars

\* a holder crashed with the marker in place, and the other caller has
\* taken the marker over
C5_TakenFromCrashed ==
    \E p, q \in Writers :
        /\ p # q
        /\ pc[q] = "crashed" /\ locked[q]
        /\ pc[p] = "write" /\ locked[p]
        /\ lock.exists /\ lock.owner = p /\ lock.mtime = now
        /\ now > staleMs

ReadStep(p) == pc[p] = "idle" /\ pc'[p] # "idle"

IsCanonicalDefault(state, t) ==
    /\ state = buildEmptyState(t)
    /\ state.meta.totalUpdates = 0
    /\ state.recentStimuli = <<>>
    /\ state.rumination.active = <<>>

\* C7: a load from a path that does not exist or whose content does not
\* parse returns the canonical default state (update counter 0, empty
\* history, empty rumination list) and no error reaches the caller.
C7_MissingOrMalformedLoadsDefault ==
    [][\A p \in Writers :
          (ReadStep(p) /\ file.kind # "doc") =>
              (pc'[p] = "loaded" /\ IsCanonicalDefault(loaded'[p], now))]_vars

\* a caller holds the default state it got from the malformed file
C7_LoadedFromMalformed ==
    \E p \in Writers :
        /\ pc[p] = "loaded"
        /\ file.kind = "corrupt"
        /\ IsCanonicalDefault(loaded[p], now)

(***************************************************************************)
(* Properties of rumination start, advance and reset                       *)
(***************************************************************************)
\* the entry startRumination makes for the stimulus just recorded
StartedEntry(stimulus) ==
    [stimulusId |-> stimulus.id, label |-> stimulus.label, stage |-> 0,
     intensity |-> stimulus.intensity, lastStageTimestamp |-> stimulus.timestamp]

\* the applyStimulus step appended exactly the entry of its stimulus
EntryCreated ==
    st'.rumination.active =
        Append(st.rumination.active, StartedEntry(st'.recentStimuli[1]))

StimulusStep == lastOp' = "applyStimulus"

MaxPreAdvance == 5

\* plugin configurations: the defaults, and ruminationThreshold 0 with
\* ruminationMaxStages 10
RuminationConfigs ==
    {DefaultConfig,
     [DefaultConfig EXCEPT !.ruminationThreshold = 0, !.ruminationMaxStages = 10]}

\* stimuli at full intensity and just above the low adjusted threshold
RuminationIntensities == {One, 160}

\* the states an earlier session left behind: one stimulus, then k advances
LoadedStates(config) ==
    {AdvanceTimes(applyStimulus(buildEmptyState(0), config, "angry", intensity,
                                "trigger", 1, 0), config, k, 0) :
        intensity \in RuminationIntensities, k \in 0..MaxPreAdvance}

RuminationInit ==
    /\ cfg \in RuminationConfigs
    /\ st \in LoadedStates(cfg)
    /\ now = 0
    /\ steps = 0
    /\ nextId = 2
    /\ lastOp = "getState"
    /\ reply = NoReply
    /\ StoreIdle

StimulusDuringRumination ==
    \E label \in {"angry", "joy"}, intensity \in RuminationIntensities :
        /\ Step("applyStimulus")
        /\ st' = applyStimulus(st, cfg, label, intensity, "trigger", nextId, now)
        /\ nextId' = nextId + 1
        /\ UNCHANGED <<cfg, now>>

\* startRumination called again for a stimulus of the history, as the
\* exported function allows (rumination.test.ts calls it twice in a row)
StartRuminationAgain ==
    \E i \in 1..Len(st.recentStimuli) :
        /\ Step("startRumination")
        /\ st' = [st EXCEPT
                     !.rumination = startRumination(st.rumination, st.recentStimuli[i])]
        /\ UNCHANGED <<cfg, now, nextId>>

RuminationNext ==
    \/ StartRuminationAgain
    \/ EngineTick
    \/ Reconfigure
    \/ ApplyDecay
    \/ StimulusDuringRumination
    \/ AdvanceRumination
    \/ ResetToBaseline

SpecRumination == RuminationInit /\ [][RuminationNext]_vars

AdvanceStep == lastOp' = "advanceRumination"

Advances == cfg.ruminationEnabled /\ Len(st.rumination.active) > 0

\* the effects of the entries of `active`, in order, each with the
\* intensity recorded in the entry
RECURSIVE EffectsOf(_, _, _)
EffectsOf(active, dimensions, emotions) ==
    IF active = <<>> THEN [dimensions |-> dimensions, emotions |-> emotions]
    ELSE LET r == applyEmotionMapping(dimensions, emotions,
                                      Head(active).label, Head(active).intensity)
         IN  EffectsOf(Tail(active), r.dimensions, r.emotions)

NotExpired(entry, maxStages) ==
    entry.stage < maxStages /\ entry.intensity >= 50

\* C13: after every advanceRumination call no entry of the list has stage
\* >= maxStages or intensity < 0.05, and when the call advances, the list is
\* exactly the advanced entries that meet neither condition, in order.
C13_ExpiredDroppedOthersKept ==
    [][AdvanceStep =>
         /\ \A i \in 1..Len(st'.rumination.active) :
               NotExpired(st'.rumination.active[i], cfg.ruminationMaxStages)
         /\ Advances =>
               st'.rumination.active =
                  SelectSeq([j \in 1..Len(st.rumination.active) |->
                                [st.rumination.active[j] EXCEPT
                                    !.stage = @ + 1,
                                    !.intensity = Mul(@, 800),
                                    !.lastStageTimestamp = now]],
                            LAMBDA e : NotExpired(e, cfg.ruminationMaxStages))]_vars

\* with threshold 0 and 10 stages, the entry of the 0.16 stimulus loaded at
\* any age fell below the floor in the one call that moved the entry of a
\* later stimulus to stage 1
C13_DroppedAndKept ==
    /\ lastOp = "advanceRumination"
    /\ steps = 2
    /\ cfg.ruminationEnabled
    /\ cfg.ruminationMaxStages = 10
    /\ Len(st.recentStimuli) = 2
    /\ st.recentStimuli[2].intensity = 160
    /\ Len(st.rumination.active) = 1
    /\ st.rumination.active[1].stimulusId = st.recentStimuli[1].id
    /\ st.rumination.active[1].stage = 1

\* C14: resetToBaseline is idempotent: for every state the engine reaches and
\* every argument, resetting the reset state gives the reset state again.
C14_ResetIdempotent ==
    \A dims \in ResetArgs :
        resetToBaseline(resetToBaseline(st, dims), dims) = resetToBaseline(st, dims)

TraitStep == lastOp' = "setPersonalityTrait"

\* C15: setPersonalityTrait returns a state whose profile is the old one
\* with the named trait set to the input clamped to [0,1], and whose
\* baseline, dimension decay rates and emotion decay rates are all the
\* values computed from that new profile.
C15_TraitClampedAllRecomputed ==
    [][TraitStep =>
         /\ \E trait \in InputTraits, v \in TraitValues :
               st'.personality =
                  [st.personality EXCEPT ![trait] =
                      IF v < 0 THEN 0 ELSE IF v > One THEN One ELSE v]
         /\ st'.baseline = computeBaseline(st'.personality)
         /\ st'.decayRates = computeDimensionDecayRates(st'.personality)
         /\ st'.emotionDecayRates = computeEmotionDecayRates(st'.personality)]_vars

\* neuroticism was set to 1.5 and stored as 1, openness to -0.5 and stored
\* as 0, and the decay rates follow the resulting profile
C15_BothEndsClamped ==
    /\ lastOp = "setPersonalityTrait"
    /\ st.personality["neuroticism"] = One
    /\ st.personality["openness"] = 0
    /\ st.decayRates = computeDimensionDecayRates(st.personality)
    /\ st.decayRates # computeDimensionDecayRates(createDefaultPersonality)

\* C16: meta.totalUpdates never decreases: not from the state an
\* orchestrator operation is given to the state it returns, and not from
\* one persisted version of the state file to the next.
C16_UpdateCounterMonotonic ==
    [][/\ st'.meta.totalUpdates >= st.meta.totalUpdates
       /\ (file.kind = "doc" /\ file'.kind = "doc") =>
             file'.doc.meta.totalUpdates >= file.doc.meta.totalUpdates]_vars

ActiveIds(state) ==
    {state.rumination.active[i].stimulusId : i \in 1..Len(state.rumination.active)}

UniqueIds(state) ==
    Cardinality(ActiveIds(state)) = Len(state.rumination.active)

\* C17: startRumination for a stimulus id that already has an active entry
\* returns the list unchanged, for a new id it appends one entry, and the
\* active list never holds two entries with the same stimulus id.
C17_DuplicateStartIsNoOp ==
    [][/\ UniqueIds(st) /\ UniqueIds(st')
       /\ lastOp' = "startRumination" =>
             \E i \in 1..Len(st.recentStimuli) :
                LET stimulus == st.recentStimuli[i]
                IN  IF stimulus.id \in ActiveIds(st)
                    THEN st'.rumination = st.rumination
                    ELSE /\ Len(st'.rumination.active) = Len(st.rumination.active) + 1
                         /\ ActiveIds(st') = ActiveIds(st) \cup {stimulus.id}]_vars

\* startRumination was called for the one stimulus of the history while its
\* entry was already at stage 2: the entry is still the only one
C17_RestartedWhileActive ==
    /\ lastOp = "startRumination"
    /\ Len(st.recentStimuli) = 1
    /\ Len(st.rumination.active) = 1
    /\ st.rumination.active[1].stimulusId = st.recentStimuli[1].id
    /\ st.rumination.active[1].stage = 2

FullResetStep == lastOp' = "resetToBaseline"

\* C18: resetToBaseline with no dimensions given returns a state in which
\* every dimension equals its baseline, all six basic emotions are 0 and
\* the rumination list is empty.
C18_FullResetClearsAll ==
    [][FullResetStep =>
         /\ st'.baseline = st.baseline
         /\ \A d \in DIMENSION_NAMES : st'.dimensions[d] = st'.baseline[d]
         /\ \A e \in BASIC_EMOTION_NAMES : st'.basicEmotions[e] = 0
         /\ st'.rumination.active = <<>>]_vars

\* a trait change moved the baseline, a full-intensity stimulus was applied
\* (it moved dimensions and emotions and started rumination), and the third
\* operation was the full reset
C18_ResetAfterStimulus ==
    /\ lastOp = "resetToBaseline"
    /\ steps = 3
    /\ st.meta.totalUpdates = 3
    /\ st.baseline # NeutralBaseline
    /\ Len(st.recentStimuli) = 1
    /\ st.recentStimuli[1].intensity = One
    /\ st.dimensions = st.baseline
    /\ st.rumination.active = <<>>

PartialResetStep == lastOp' = "resetToBaseline(dimensions)"

Named(dims) == {dims[i] : i \in 1..Len(dims)}

\* C19: a reset that names dimensions, through resetToBaseline or through the
\* reset action of the emotion_state tool, changes only the named
\* dimensions: the basic emotions, the rumination list and every unnamed
\* dimension are left unchanged.
C19_PartialResetFrame ==
    [][PartialResetStep =>
         \E dims \in ToolResetArgs \ {<<>>} :
            /\ st'.basicEmotions = st.basicEmotions
            /\ st'.rumination = st.rumination
            /\ \A d \in DIMENSION_NAMES \ Named(dims) :
                  st'.dimensions[d] = st.dimensions[d]]_vars

\* C20: advanceRumination never increments the update counter:
\* meta.totalUpdates after the call equals its value before the call,
\* whether or not rumination effects changed any value.
C20_AdvanceKeepsUpdateCounter ==
    [][AdvanceStep => st'.meta.totalUpdates = st.meta.totalUpdates]_vars

\* the only counted update is the one stimulus of the history, and a later
\* advance re-applied its entry (anger is above 0, the entry past stage 0)
C20_AdvancedWithoutCount ==
    /\ lastOp = "advanceRumination"
    /\ cfg.ruminationEnabled
    /\ Len(st.recentStimuli) = 1
    /\ st.meta.totalUpdates = 1
    /\ Len(st.rumination.active) = 1
    /\ st.rumination.active[1].stage >= 1
    /\ st.basicEmotions["anger"] > 0

(***************************************************************************)
(* The setters of the emotion_state tool (tool/emotion-tool.ts) and of the *)
(* dashboard's POST handler (http/dashboard.ts).  A handler's result is    *)
(* the state it saved (the given state when it threw before saving) and    *)
(* its reply; of an error message the reply keeps the name it quotes and   *)
(* the set of valid names it lists.                                        *)
(***************************************************************************)
Replied(request) ==
    [request |-> request, ok |-> TRUE, errorName |-> "", errorValid |-> {}]

Threw(request, name, valid) ==
    [request |-> request, ok |-> FALSE, errorName |-> name, errorValid |-> valid]

handleSetDimension(state, request, t) ==
    IF request.name = "" THEN
        [state |-> state, reply |-> Threw(request, "", {})]
    ELSE IF request.name \notin DIMENSION_NAMES THEN
        [state |-> state, reply |-> Threw(request, request.name, DIMENSION_NAMES)]
    ELSE LET decayed == applyDecay(state, t)
         IN  IF request.delta # <<>> THEN
                 [state |-> applyDimensionDeltaMethod(decayed, request.name,
                                                      request.delta[1]),
                  reply |-> Replied(request)]
             ELSE IF request.value # <<>> THEN
                 [state |-> setDimension(decayed, request.name, request.value[1]),
                  reply |-> Replied(request)]
             ELSE [state |-> state, reply |-> Threw(request, "", {})]

handleSetPersonality(state, request) ==
    IF request.name = "" THEN
        [state |-> state, reply |-> Threw(request, "", {})]
    ELSE IF request.name \notin OCEAN_TRAITS THEN
        [state |-> state, reply |-> Threw(request, request.name, OCEAN_TRAITS)]
    ELSE IF request.value = <<>> THEN
        [state |-> state, reply |-> Threw(request, "", {})]
    ELSE [state |-> setPersonalityTrait(state, request.name, request.value[1]),
          reply |-> Replied(request)]

\* the loops of the dashboard's "batch" case: an entry whose name or value
\* does not pass the test is skipped
RECURSIVE batchDimensions(_, _)
batchDimensions(state, entries) ==
    IF entries = <<>> THEN state
    ELSE LET dim == Head(entries)[1]
             val == Head(entries)[2]
         IN  batchDimensions(IF dim \in DIMENSION_NAMES
                             THEN setDimension(state, dim, val) ELSE state,
                             Tail(entries))

RECURSIVE batchPersonality(_, _)
batchPersonality(state, entries) ==
    IF entries = <<>> THEN state
    ELSE LET trait == Head(entries)[1]
             val   == Head(entries)[2]
         IN  batchPersonality(IF trait \in OCEAN_TRAITS /\ val >= 0 /\ val <= One
                              THEN setPersonalityTrait(state, trait, val) ELSE state,
                              Tail(entries))

RECURSIVE batchDecayRates(_, _)
batchDecayRates(rates, entries) ==
    IF entries = <<>> THEN rates
    ELSE LET dim == Head(entries)[1]
             val == Head(entries)[2]
         IN  batchDecayRates(IF dim \in DIMENSION_NAMES /\ val >= 0
                             THEN [rates EXCEPT ![dim] = val] ELSE rates,
                             Tail(entries))

RECURSIVE batchBasicEmotions(_, _)
batchBasicEmotions(emos, entries) ==
    IF entries = <<>> THEN emos
    ELSE LET name == Head(entries)[1]
             val  == Head(entries)[2]
         IN  batchBasicEmotions(IF name \in BASIC_EMOTION_NAMES /\ val >= 0 /\ val <= One
                                THEN [emos EXCEPT ![name] = val] ELSE emos,
                                Tail(entries))

\* a section that is absent from `updates` is the empty sequence here
batch(state, updates) ==
    LET s1 == batchDimensions(state, updates.dimensions)
        s2 == batchPersonality(s1, updates.personality)
        s3 == IF updates.decayRates = <<>> THEN s2
              ELSE [s2 EXCEPT !.decayRates =
                       batchDecayRates(s2.decayRates, updates.decayRates)]
    IN  IF updates.basicEmotions = <<>> THEN s3
        ELSE BumpUpdates([s3 EXCEPT !.basicEmotions =
                 batchBasicEmotions(s3.basicEmotions, updates.basicEmotions)])

\* POST of the dashboard: load, decay, dispatch on the action, save; a throw
\* inside the switch is answered with 400 and nothing is saved.  The
\* dashboard's messages quote the bad name only.
dashboardPost(state, request, t) ==
    LET decayed == applyDecay(state, t)
        name    == request.name
        bad(n)  == [state |-> state, reply |-> Threw(request, n, {})]
        done(s) == [state |-> s, reply |-> Replied(request)]
    IN  CASE request.action = "set_personality" ->
                IF name \notin OCEAN_TRAITS THEN bad(name)
                ELSE IF request.value = <<>> \/ request.value[1] < 0
                                             \/ request.value[1] > One THEN bad("")
                ELSE done(setPersonalityTrait(decayed, name, request.value[1]))
          [] request.action = "set_dimension" ->
                IF name \notin DIMENSION_NAMES THEN bad(name)
                ELSE IF request.value = <<>> THEN bad("")
                ELSE done(setDimension(decayed, name, request.value[1]))
          [] request.action = "set_decay" ->
                IF name \notin DIMENSION_NAMES THEN bad(name)
                ELSE IF request.value = <<>> \/ request.value[1] < 0 THEN bad("")
                ELSE done([decayed EXCEPT !.decayRates[name] = request.value[1]])
          [] request.action = "batch" -> done(batch(decayed, request.updates))
          [] OTHER -> bad("")

\* --- inputs of the request model ---

\* a valid dimension, a valid trait, and a name that is neither
RequestNames == {"pleasure", "neuroticism", "bogus"}

ToolRequests ==
    {[via |-> "tool", action |-> a, name |-> n, value |-> v, delta |-> d,
      updates |-> NoUpdates] :
        a \in {"set_dimension", "set_personality"}, n \in RequestNames,
        v \in {<<>>, <<600>>}, d \in {<<>>, <<300>>}}

DashboardRequests ==
    {[via |-> "dashboard", action |-> a, name |-> n, value |-> v, delta |-> <<>>,
      updates |-> NoUpdates] :
        a \in {"set_dimension", "set_personality", "set_decay"},
        n \in RequestNames, v \in {<<600>>, <<0 - 200>>}}

BatchSections == {"dimensions", "personality", "decayRates", "basicEmotions"}

\* batches with one or two entries in one section
BatchRequests ==
    {[via |-> "dashboard", action |-> "batch", name |-> "", value |-> <<>>,
      delta |-> <<>>, updates |-> [NoUpdates EXCEPT ![sec] = entries]] :
        sec \in BatchSections,
        entries \in {<<<<n, 600>>>> : n \in RequestNames \cup {"anger"}}
                    \cup {<<<<"bogus", 600>>, <<"pleasure", 300>>>>}}

RequestStep(request) ==
    /\ steps < MaxSteps
    /\ steps' = steps + 1
    /\ lastOp' = request.action
    /\ UNCHANGED <<cfg, now, nextId, storeVars>>

ToolRequest ==
    \E request \in ToolRequests :
        LET r == IF request.action = "set_dimension"
                 THEN handleSetDimension(st, request, now)
                 ELSE handleSetPersonality(st, request)
        IN  /\ RequestStep(request)
            /\ st' = r.state
            /\ reply' = r.reply

DashboardPost ==
    \E request \in DashboardRequests \cup BatchRequests :
        LET r == dashboardPost(st, request, now)
        IN  /\ RequestStep(request)
            /\ st' = r.state
            /\ reply' = r.reply

RequestsNext ==
    \/ EngineTick
    \/ ToolRequest
    \/ DashboardPost

SpecRequests == EngineInit /\ [][RequestsNext]_vars

\* the names a request gives for a dimension, a trait or a decay rate that
\* are not in the set the request's slot accepts
SeqNames(entries) == {entries[i][1] : i \in 1..Len(entries)}

UnknownNames(request) ==
    IF request.action = "batch"
    THEN ((SeqNames(request.updates.dimensions)
            \cup SeqNames(request.updates.decayRates)) \ DIMENSION_NAMES)
         \cup (SeqNames(request.updates.personality) \ OCEAN_TRAITS)
    ELSE IF request.action = "set_personality"
    THEN {request.name} \ (OCEAN_TRAITS \cup {""})
    ELSE IF request.action \in {"set_dimension", "set_decay"}
    THEN {request.name} \ (DIMENSION_NAMES \cup {""})
    ELSE {}

ValidNames(request) ==
    IF request.action = "set_personality" THEN OCEAN_TRAITS ELSE DIMENSION_NAMES

\* C21: any request to set a dimension, a personality trait or a decay rate
\* by an unrecognized name raises an error identifying the bad name and the
\* valid set, and the unrecognized name is never silently ignored: the
\* reply is an error that quotes the name and lists the valid names.
C21_UnknownNameRaises ==
    UnknownNames(reply.request) # {} =>
        /\ ~reply.ok
        /\ reply.errorName \in UnknownNames(reply.request)
        /\ reply.errorValid = ValidNames(reply.request)

UnknownLabel(label) ==
    /\ Normalized(label) \notin DOMAIN ALL_EMOTION_MAPPINGS
    /\ Normalized(label) \notin DOMAIN LABEL_ALIASES

\* C22: applyStimulus with a label that is neither a canonical label nor an
\* alias raises no error (the stimulus is recorded and counted) and leaves
\* every dimension and every basic emotion unchanged.
C22_UnknownLabelNoOp ==
    [][(StimulusStep /\ UnknownLabel(st'.recentStimuli[1].label)) =>
         /\ st'.dimensions = st.dimensions
         /\ st'.basicEmotions = st.basicEmotions
         /\ st'.recentStimuli[1].id = nextId
         /\ st'.meta.totalUpdates = st.meta.totalUpdates + 1]_vars

\* an "angry" stimulus moved dimensions and emotions, and the stimulus
\* applied after it carried an unknown label that Object.prototype defines
C22_UnknownAfterKnown ==
    /\ lastOp = "applyStimulus"
    /\ Len(st.recentStimuli) = 2
    /\ st.recentStimuli[1].label = "constructor"
    /\ st.recentStimuli[1].intensity = One
    /\ st.recentStimuli[2].label = "angry"
    /\ st.basicEmotions["anger"] > 0
    /\ st.dimensions # st.baseline

\* C23: no StateManager operation modifies the state object passed to it:
\* the object a caller handed to saveState holds the same value at every
\* later point of that saveState execution as when it was handed over.
C23_ArgumentNotModified ==
    [][\A p \in Writers :
         (pc[p] \in InSave /\ pc'[p] \in InSave \cup {"done"}) =>
             held'[p] = held[p]]_vars

(***************************************************************************)
(* The histories: recentStimuli and the per-identity buckets, under the    *)
(* values config.maxHistory can have (resolveConfig takes the configured   *)
(* number as it is).                                                       *)
(***************************************************************************)
\* -1 and 0 are accepted by resolveConfig like any other number
HistoryCaps == {0 - 1, 0, 1, MaxHistory}

UserKeys == {"user1", "unknown"}

AgentIds == {"main"}

Classifications ==
    {[label |-> "angry", intensity |-> 800, reason |-> "reason", confidence |-> 900],
     [label |-> "bogus", intensity |-> 300, reason |-> "reason", confidence |-> 400]}

HistoryInit ==
    /\ st = buildEmptyState(0)
    /\ cfg \in {[DefaultConfig EXCEPT !.maxHistory = n] : n \in HistoryCaps}
    /\ now = 0
    /\ steps = 0
    /\ nextId = 1
    /\ lastOp = "getState"
    /\ reply = NoReply
    /\ StoreIdle

HistoryStimulus ==
    \E label \in {"angry", "bogus"} :
        /\ Step("applyStimulus")
        /\ st' = applyStimulus(st, cfg, label, 400, "trigger", nextId, now)
        /\ nextId' = nextId + 1
        /\ UNCHANGED <<cfg, now>>

UpdateUserEmotion ==
    \E userKey \in UserKeys, result \in Classifications :
        /\ Step("updateUserEmotion")
        /\ st' = updateUserEmotion(st, cfg, userKey, result, nextId, now)
        /\ nextId' = nextId + 1
        /\ UNCHANGED <<cfg, now>>

UpdateAgentEmotion ==
    \E agentId \in AgentIds, result \in Classifications :
        /\ Step("updateAgentEmotion")
        /\ st' = updateAgentEmotion(st, cfg, agentId, result, nextId, now)
        /\ nextId' = nextId + 1
        /\ UNCHANGED <<cfg, now>>

HistoryNext ==
    \/ EngineTick
    \/ HistoryStimulus
    \/ UpdateUserEmotion
    \/ UpdateAgentEmotion

SpecHistory == HistoryInit /\ [][HistoryNext]_vars

\* at most n entries, newest first, the stimulus with the given id in front
NewestFirst(history) ==
    \A i, j \in 1..Len(history) :
        i < j => /\ history[i].timestamp >= history[j].timestamp
                 /\ history[i].id > history[j].id

CappedWithNewInFront(history, n, id) ==
    /\ Len(history) <= n
    /\ Len(history) >= 1
    /\ history[1].id = id
    /\ NewestFirst(history)

\* the bucket of some key was replaced by one whose history is capped with
\* the new stimulus in front and whose latest is that stimulus
BucketUpdated(before, after, keys, n, id) ==
    \E k \in keys :
        /\ k \in DOMAIN after
        /\ \A o \in DOMAIN before \ {k} : o \in DOMAIN after /\ after[o] = before[o]
        /\ CappedWithNewInFront(after[k].history, n, id)
        /\ after[k].latest = after[k].history[1]

HistoryKept ==
    /\ lastOp' = "applyStimulus" =>
          CappedWithNewInFront(st'.recentStimuli, cfg.maxHistory, nextId)
    /\ lastOp' = "updateUserEmotion" =>
          BucketUpdated(st.users, st'.users, UserKeys, cfg.maxHistory, nextId)
    /\ lastOp' = "updateAgentEmotion" =>
          BucketUpdated(st.agents, st'.agents, AgentIds, cfg.maxHistory, nextId)

\* C24 as stated: after every applyStimulus, updateUserEmotion and
\* updateAgentEmotion the affected history list holds at most maxHistory
\* entries in newest-first order with the newly created stimulus as its
\* first element, equal to latest for identity buckets -- for every
\* configured maxHistory.
C24_HistoryCappedNewestFirst ==
    [][HistoryKept]_vars

\* C24: the same whenever the configured maxHistory is at least 1.
C24_HistoryCappedWhenPositive ==
    [][cfg.maxHistory >= 1 => HistoryKept]_vars

\* with maxHistory 2, the third emotion recorded for user1 pushed the first
\* one out of the bucket's history
C24_BucketOverflowed ==
    /\ lastOp = "updateUserEmotion"
    /\ cfg.maxHistory = 2
    /\ steps = 3
    /\ "user1" \in DOMAIN st.users
    /\ Len(st.users["user1"].history) = 2
    /\ st.users["user1"].latest.id = 3
    /\ st.users["user1"].history[2].id = 2

(***************************************************************************)
(* applyDecay on loaded states whose lastUpdated lies before, at or after  *)
(* the clock (a file stamped by a clock that was ahead).                   *)
(***************************************************************************)
\* 0, 12 h and 24 h, as lastUpdated of the loaded state and as the clock
DecayTimes == {0, EngineTickMs, 2 * EngineTickMs}

\* the empty state and states a stimulus has moved away from the baseline
DecayStates ==
    {buildEmptyState(0)}
    \cup {applyStimulus(buildEmptyState(0), DefaultConfig, label, intensity,
                        "trigger", 1, 0) :
             label \in {"angry", "joy"}, intensity \in {400, One}}

DecayInit ==
    /\ st \in {[s EXCEPT !.lastUpdated = t] : s \in DecayStates, t \in DecayTimes}
    /\ cfg = DefaultConfig
    /\ now \in DecayTimes
    /\ steps = 0
    /\ nextId = 2
    /\ lastOp = "getState"
    /\ reply = NoReply
    /\ StoreIdle

DecayNext ==
    \/ EngineTick
    \/ ApplyDecay
    \/ SetDimension

SpecDecay == DecayInit /\ [][DecayNext]_vars

DecayStep == lastOp' = "applyDecay"

\* C25: applyDecay is a no-op whenever the elapsed time since lastUpdated is
\* <= 0, a lastUpdated in the future included: dimensions, basic emotions
\* and the last-updated timestamp are returned unchanged.
C25_NoElapsedNoDecay ==
    [][(DecayStep /\ now - st.lastUpdated <= 0) =>
         /\ st'.dimensions = st.dimensions
         /\ st'.basicEmotions = st.basicEmotions
         /\ st'.lastUpdated = st.lastUpdated]_vars

\* applyDecay ran on a state stamped 12 h ahead of the clock, with
\* dimensions away from the baseline and anger above 0
C25_DecayedFromFuture ==
    /\ lastOp = "applyDecay"
    /\ st.lastUpdated = now + EngineTickMs
    /\ st.dimensions # st.baseline
    /\ st.basicEmotions["anger"] > 0

ReleaseStep(p) == pc[p] = "finally" /\ pc'[p] = "done" /\ locked[p]

\* C26: releaseLock leaves the marker absent and raises no error (the
\* saveState that called it settles) whether or not the marker existed
\* before the call; the next acquireLock on the same path, by any caller,
\* then returns true.
C26_ReleaseThenAcquire ==
    [][\A p \in Writers :
         ReleaseStep(p) =>
             /\ ~lock'.exists
             /\ \A q \in Writers : acquireLock(lock', q, now', staleMs).ok]_vars

\* a saveState released a marker that was no longer there (its lock had been
\* taken over as stale and released by the other caller), and the marker is
\* absent
C26_ReleasedAbsentMarker ==
    /\ lastOp = "releaseLock(absent)"
    /\ ~lock.exists
    /\ \A p \in Writers : pc[p] = "done" /\ locked[p]

BothCompleted == \A p \in Writers : pc[p] = "done" /\ outcome[p] = "saved"

\* C27: if two load -> transform -> save sequences on the same state file
\* both complete without reporting failure, the finally persisted state
\* contains the effects of both transforms: once both callers' saves have
\* settled, the file holds a document with the dimension that caller 1's
\* transform set (caller 2's transform leaves every modelled field as loaded).
C27_BothUpdatesPersisted ==
    BothCompleted =>
        /\ file.kind = "doc"
        /\ file.doc.dimensions["pleasure"]
              = CallerTransform(1, file.doc, now).dimensions["pleasure"]

\* C28: a saveState execution never removes a lock marker that is currently
\* held by a different writer: the marker its finally block removes, if
\* there is one, is the one it created itself, also after its own lock was
\* taken over as stale while it was still writing.
C28_ReleasesOwnLockOnly ==
    [][\A p \in Writers :
         (pc[p] = "finally" /\ pc'[p] = "done" /\ lock.exists /\ ~lock'.exists) =>
             lock.owner = p]_vars

(***************************************************************************)
(* One caller at a time running load -> transform -> save against the      *)
(* state file, hours apart: the agent_end hook, the decay service, the     *)
(* analysis service and the tool's set_personality.                        *)
(***************************************************************************)
\* what classifyEmotion returns for a message; <<>> when the event has no
\* such message.  A neutral result of confidence 0 is not recorded.
HookResults ==
    {<<>>}
    \cup {<<c>> : c \in Classifications}
    \cup {<<[label |-> "neutral", intensity |-> 0, reason |-> "reason",
             confidence |-> 0]>>}

Recorded(result) == result.label # "neutral" \/ result.confidence > 0

\* createAgentEndHook between its getState and its saveState
agentEndTransform(state, config, userKey, agentId, userResult, agentResult, id, t) ==
    LET s1 == IF userResult # <<>> /\ Recorded(userResult[1])
              THEN applyStimulus(
                       updateUserEmotion(state, config, userKey, userResult[1], id, t),
                       config, userResult[1].label, userResult[1].intensity,
                       userResult[1].reason, id + 1, t)
              ELSE state
    IN  IF agentResult # <<>> /\ Recorded(agentResult[1])
        THEN updateAgentEmotion(s1, config, agentId, agentResult[1], id + 2, t)
        ELSE s1

\* the openfeelz-decay service's interval callback between load and save
decayServiceTransform(state, config, t) ==
    advanceRumination(applyDecay(state, t), config, t)

\* saveState with no other writer around: acquire, stamp, write, rename,
\* release; the result is the file
savedFile(f, state, t) ==
    LET w == saveStateWrite(f, AbsentFile, state, t)
    IN  writeStateFileRename(w.file, w.tmp).file

SavesInit ==
    /\ st = buildEmptyState(0)
    /\ cfg = DefaultConfig
    /\ now = 0
    /\ steps = 0
    /\ nextId = 2
    /\ lastOp = "getState"
    /\ reply = NoReply
    /\ file \in {AbsentFile} \cup {[kind |-> "doc", doc |-> s] : s \in DecayStates}
    /\ tmp = [p \in Writers |-> AbsentFile]
    /\ lock = NoLock
    /\ pc = [p \in Writers |-> "idle"]
    /\ locked = [p \in Writers |-> FALSE]
    /\ held = [p \in Writers |-> buildEmptyState(0)]
    /\ loaded = [p \in Writers |-> buildEmptyState(0)]
    /\ outcome = [p \in Writers |-> "none"]

\* a caller loaded, produced `state` and saved it: the file holds the stamped
\* document, and so does the caller's object
LoadedAndSaved(op, state) ==
    /\ steps < MaxSteps
    /\ steps' = steps + 1
    /\ lastOp' = op
    /\ file' = savedFile(file, state, now)
    /\ st' = saveStateStamp(state, now)
    /\ UNCHANGED <<cfg, now, reply, tmp, lock, pc, locked, held, loaded, outcome>>

AgentEnd ==
    \E userResult \in HookResults, agentResult \in HookResults :
        /\ LoadedAndSaved("agent_end",
               agentEndTransform(getState(file, now).state, cfg, "unknown", "main",
                                 userResult, agentResult, nextId, now))
        /\ nextId' = nextId + 3

DecayService ==
    /\ LoadedAndSaved("openfeelz-decay",
           decayServiceTransform(getState(file, now).state, cfg, now))
    /\ UNCHANGED nextId

RunAnalysis ==
    /\ LoadedAndSaved("runAnalysis", getState(file, now).state)
    /\ UNCHANGED nextId

ToolSetPersonality ==
    \E request \in {r \in ToolRequests :
                        r.action = "set_personality" /\ r.name = "neuroticism"} :
        LET r == handleSetPersonality(getState(file, now).state, request)
        IN  /\ r.reply.ok
            /\ LoadedAndSaved("set_personality", r.state)
            /\ UNCHANGED nextId

SavesNext ==
    \/ EngineTick
    \/ AgentEnd
    \/ DecayService
    \/ RunAnalysis
    \/ ToolSetPersonality

SpecSaves == SavesInit /\ [][SavesNext]_vars

\* a save moved the persisted lastUpdated forward
SaveAdvances ==
    /\ file.kind = "doc"
    /\ file'.kind = "doc"
    /\ file'.doc.lastUpdated > file.doc.lastUpdated

\* between the two versions no stimulus was recorded and no rumination entry
\* was there to act: decay is all that can have moved the values
DecayOnly ==
    /\ file'.doc.recentStimuli = file.doc.recentStimuli
    /\ file.doc.rumination.active = <<>>

\* C29: whenever a save advances the persisted lastUpdated from t0 to t1,
\* the persisted dimensions and basic emotions have been decayed for the
\* whole interval t1 - t0: where nothing but decay can have moved them, they
\* are the old persisted values decayed by the hours from t0 to t1.
C29_SaveCoversElapsedDecay ==
    [][(SaveAdvances /\ DecayOnly) =>
         LET elapsedHours == HoursOf(file'.doc.lastUpdated - file.doc.lastUpdated)
         IN  /\ file'.doc.dimensions =
                   decayDimensions(file.doc.dimensions, file.doc.baseline,
                                   file.doc.decayRates, elapsedHours)
             /\ file'.doc.basicEmotions =
                   decayBasicEmotions(file.doc.basicEmotions,
                                      file.doc.emotionDecayRates, elapsedHours)]_vars

====
